---- MODULE Spec2Model ----
(***************************************************************************)
(* opzioni: a typed configuration handle.  Config<T> keeps a value behind  *)
(* a read/write lock together with an optional origin path;                *)
(* ConfigBuilder::load reads it from a file whose extension selects the    *)
(* codec (manager::for_file); Config::save writes it back.  The lock is    *)
(* std::sync::RwLock without the "tokio" feature ("blocking") and          *)
(* tokio::sync::RwLock with it ("tokio").                                  *)
(*                                                                         *)
(* Strings and paths are sequences of one-character strings.  Option<X>    *)
(* is a sequence of length 0 (None) or 1 (Some).                           *)
(***************************************************************************)
EXTENDS Integers, Sequences, FiniteSets, TLC

\* ------------------------------------------------------------------ bounds
\* Largest value the name field of the payload takes.
MaxVal == 1
\* Number of threads (tasks) sharing one handle.
NumThreads == 2
\* Number of ConfigBuilder::load calls in one run of the load specification.
MaxLoads == 2

Threads == 1..NumThreads

\* ------------------------------------------------------------ Option<X>
None == << >>
Some(x) == <<x>>
IsSome(o) == Len(o) = 1
Unwrap(o) == o[1]

\* ------------------------------------------------- the payload type T
\* T is the caller's struct; the documentation's MyConfig { name, age }.
Names == 0..MaxVal
Ages == {0, 1}
Values == [name : Names, age : Ages]
\* T::default()
Default == [name |-> 0, age |-> 0]

\* --------------------------------------------------------------- Error
ConfigLoadError(detail) == [kind |-> "ConfigLoadError", detail |-> detail]
UnknownFileExtension(detail) == [kind |-> "UnknownFileExtension", detail |-> detail]
SerializationError(detail) == [kind |-> "SerializationError", detail |-> detail]
\* impl From<std::io::Error> for Error / From<serde_*::Error> for Error:
\* the message of the underlying error becomes the detail.
FromError(msg) == SerializationError(Some(msg))
\* Placeholder of the err field of a result that is not an Err.
NoError == [kind |-> "", detail |-> None]

\* Result<_, Error> (and a panic, which is no result at all).
Ok(v) == [tag |-> "Ok", val |-> v, err |-> NoError]
Err(e) == [tag |-> "Err", val |-> Default, err |-> e]
Panic == [tag |-> "Panic", val |-> Default, err |-> NoError]
NoResult == [tag |-> "None", val |-> Default, err |-> NoError]

\* ---------------------------------------------------------------- paths
\* A byte that is not valid UTF-8 (an OsStr may hold one).
BadByte == "xFF"
PJson == <<"c", ".", "j", "s", "o", "n">>
PToml == <<"c", ".", "t", "o", "m", "l">>
PYaml == <<"c", ".", "y", "a", "m", "l">>
PYml == <<"c", ".", "y", "m", "l">>
PIni == <<"c", ".", "i", "n", "i">>
PUpper == <<"c", ".", "J", "S", "O", "N">>
PNoExt == <<"c", "f", "g">>
PHidden == <<".", "j", "s", "o", "n">>
PBad == <<"c", ".", BadByte>>
Paths == {PJson, PToml, PYaml, PYml, PIni, PUpper, PNoExt, PHidden, PBad}

\* Path::extension: the part of the file name after its last '.', None when
\* there is no '.' or the only one starts the name.
Extension(path) ==
    LET dots == {i \in 1..Len(path) : path[i] = "."}
        last == CHOOSE i \in dots : \A j \in dots : j <= i
    IN  IF dots = {} \/ dots = {1} THEN None
        ELSE Some(SubSeq(path, last + 1, Len(path)))

\* OsStr::to_str: None when the text is not valid UTF-8.
ToStr(os) == IF \E i \in 1..Len(os) : os[i] = BadByte THEN None ELSE Some(os)

\* ------------------------------------------------------------- features
AllFeatures == {"json", "toml", "yaml"}
FeatureSets == {AllFeatures, {"json", "yaml"}}
Variants == {"blocking", "tokio"}

\* ----------------------------------------------------------- the codecs
\* The encoded text of a value: a token naming the syntax, then the name
\* in unary, a separator and the age in unary (so that texts of different
\* values differ in length, as real encodings do).
Tag(fmt) == CASE fmt = "json" -> "J" [] fmt = "toml" -> "T" [] OTHER -> "Y"

Rep(tok, n) == [i \in 1..n |-> tok]

\* serde_json::to_string_pretty / toml::to_string_pretty / serde_yaml::to_string
Encode(fmt, v) == <<Tag(fmt)>> \o Rep("n", v.name) \o <<":">> \o Rep("g", v.age)

\* serde_json::from_str / toml::from_str / serde_yaml::from_str: a parser,
\* failing with a SerializationError on text that is not of the syntax.
Decode(fmt, text) ==
    LET n == Len(text)
        seps == {i \in 1..n : text[i] = ":"}
        k == CHOOSE i \in seps : TRUE
    IN  IF n < 2 \/ text[1] # Tag(fmt) \/ Cardinality(seps) # 1
        THEN Err(FromError(<<"p", "a", "r", "s", "e">>))
        ELSE IF /\ \A i \in 2..(k - 1) : text[i] = "n"
                /\ \A i \in (k + 1)..n : text[i] = "g"
             THEN Ok([name |-> k - 2, age |-> n - k])
             ELSE Err(FromError(<<"p", "a", "r", "s", "e">>))

\* ------------------------------------------------------------ the files
\* The file at the path of the run: absent, or its content.
NoFile == [exists |-> FALSE, data |-> << >>]
FileOf(data) == [exists |-> TRUE, data |-> data]

\* std::fs::read_to_string
ReadToString(f) ==
    IF ~f.exists THEN Err(FromError(<<"N", "o", "t", "F", "o", "u", "n", "d">>))
    ELSE IF \E i \in 1..Len(f.data) : f.data[i] = BadByte
         THEN Err(FromError(<<"I", "n", "v", "a", "l", "i", "d">>))
         ELSE [tag |-> "Ok", text |-> f.data, err |-> NoError]

\* What the file holds after write(2) of data at offset 0 of a file opened
\* earlier: bytes beyond the written ones stay.
Overlay(old, data) ==
    [i \in 1..(IF Len(old) > Len(data) THEN Len(old) ELSE Len(data)) |->
        IF i <= Len(data) THEN data[i] ELSE old[i]]

\* ------------------------------------------------------- manager::for_file
ForFileResult(tag, loader, err) == [tag |-> tag, loader |-> loader, err |-> err]

for_file(path, feats) ==
    LET ext == Extension(path)
        str == ToStr(Unwrap(ext))
    IN  IF ~IsSome(ext) THEN ForFileResult("Err", "", UnknownFileExtension(None))
        ELSE IF str = Some(<<"j", "s", "o", "n">>) /\ "json" \in feats
             THEN ForFileResult("Ok", "json", NoError)
        ELSE IF str = Some(<<"t", "o", "m", "l">>) /\ "toml" \in feats
             THEN ForFileResult("Ok", "toml", NoError)
        ELSE IF /\ str \in {Some(<<"y", "a", "m", "l">>), Some(<<"y", "m", "l">>)}
                /\ "yaml" \in feats
             THEN ForFileResult("Ok", "yaml", NoError)
        \* the `_` arm: ext.to_str().unwrap() panics on None
        ELSE IF ~IsSome(str) THEN ForFileResult("Panic", "", NoError)
        ELSE ForFileResult("Err", "", UnknownFileExtension(Some(Unwrap(str))))

\* ConfigManager::load of the three loaders: read the file, decode it.
loader_load(fmt, f) ==
    LET data == ReadToString(f)
    IN  IF data.tag = "Err" THEN Err(data.err) ELSE Decode(fmt, data.text)

\* ------------------------------------------------------------------ state
VARIABLES
    variant,               \* which Lock the build uses: "blocking" or "tokio"
    features,              \* the codecs compiled in
    file,                  \* the file at the path of the run
    use_default_on_error,  \* ConfigBuilder.use_default_on_error
    lpc,                   \* where ConfigBuilder::load stands
    lpath,                 \* its path argument
    lloader,               \* the loader for_file gave it
    lerr,                  \* the error the resolver or the loader produced
    lres,                  \* what load returned
    loads,                 \* number of load calls so far
    origin,                \* how the handle was built ("none": no handle yet)
    cfg,                   \* Config.config: the value behind the lock
    hpath,                 \* Config.path
    held,                  \* per thread, the guard it took from get()
    poisoned,              \* std RwLock: a writer panicked holding the guard
    committed,             \* the value when the last write guard was dropped
    spc,                   \* per thread, where its save() stands
    sloader,               \* per thread, the loader of its save()
    snap,                  \* per thread, the value its save() encodes
    sres,                  \* per thread, what its save() returned
    sguard,                \* per thread, save() holds its read guard
    healed                 \* "saved": the latest file operation is the write
                           \* of a save() of a recovered handle; "reload":
                           \* and load was called since; "no" otherwise

vars == <<variant, features, file, use_default_on_error, lpc, lpath, lloader,
          lerr, lres, loads, origin, cfg, hpath, held, poisoned, committed,
          spc, sloader, snap, sres, sguard, healed>>

buildVars == <<variant, features>>
loadVars == <<use_default_on_error, lpc, lpath, lloader, lerr, lres, loads>>
handleVars == <<origin, cfg, hpath>>
lockVars == <<held, poisoned, committed>>
saveVars == <<spc, sloader, snap, sres, sguard>>
ghostVars == <<healed>>

Terminal == {"Succeeded", "Recovered", "Failed"}
LoadRunning == lpc \in {"Builder", "Resolving", "Decoding"}

\* The files a run may start with.
InitFiles ==
    {NoFile, FileOf(<<"J">>), FileOf(<<BadByte>>)}
        \cup {FileOf(Encode(f, v)) : f \in AllFeatures, v \in Values}

\* ------------------------------------------------- construction of a handle
\* Config::empty and Default::default
empty == [cfg |-> Default, path |-> None]
\* Config::new
new(value, path) == [cfg |-> value, path |-> Some(path)]

\* ----------------------------------------------------------- the builder
\* Config::configure
Configure ==
    /\ lpc \in Terminal \cup {"Idle"}
    /\ loads < MaxLoads
    /\ \A t \in Threads : spc[t] = "idle"
    /\ use_default_on_error' = FALSE
    /\ lpc' = "Builder"
    /\ UNCHANGED <<buildVars, file, lpath, lloader, lerr, lres, loads,
                   handleVars, lockVars, saveVars, ghostVars>>

\* ConfigBuilder::use_default_on_error
UseDefaultOnError ==
    /\ lpc = "Builder"
    /\ ~use_default_on_error
    /\ use_default_on_error' = TRUE
    /\ UNCHANGED <<buildVars, file, lpc, lpath, lloader, lerr, lres, loads,
                   handleVars, lockVars, saveVars, ghostVars>>

\* handle_load_err as it would be if the recovered handle were Config::empty().
handle_load_err_forgets_path(flag, err, path) ==
    IF ~flag
    THEN [tag |-> "Err", err |-> err, cfg |-> Default, path |-> None]
    ELSE [tag |-> "Ok", err |-> NoError, cfg |-> Default, path |-> None]

\* ConfigBuilder::handle_load_err: the error back, or a default handle.
handle_load_err(flag, err, path) ==
    IF ~flag
    THEN [tag |-> "Err", err |-> err, cfg |-> Default, path |-> None]
    ELSE [tag |-> "Ok", err |-> NoError, cfg |-> Default, path |-> Some(path)]

\* load's two calls of handle_load_err: its result is load's result.
LoadFails(err) ==
    LET r == handle_load_err(use_default_on_error, err, lpath)
    IN  /\ lerr' = err
        /\ IF r.tag = "Ok"
           THEN /\ lpc' = "Recovered"
                /\ lres' = Ok(r.cfg)
                /\ origin' = "recovered"
                /\ cfg' = r.cfg
                /\ committed' = r.cfg
                /\ hpath' = r.path
           ELSE /\ lpc' = "Failed"
                /\ lres' = Err(r.err)
                /\ UNCHANGED <<origin, cfg, committed, hpath>>

\* ConfigBuilder::load is called: the first load of a run picks the path,
\* a later one takes the same path again.
LoadCall(p) ==
    /\ lpc = "Builder"
    /\ loads = 0 \/ p = lpath
    /\ lpc' = "Resolving"
    /\ lpath' = p
    /\ loads' = loads + 1
    /\ lres' = NoResult
    /\ lerr' = NoError
    /\ healed' = IF healed = "saved" THEN "reload" ELSE healed
    /\ UNCHANGED <<buildVars, file, use_default_on_error, lloader,
                   handleVars, lockVars, saveVars>>

\* load: match manager::for_file(path)
LoadResolve ==
    /\ lpc = "Resolving"
    /\ LET r == for_file(lpath, features)
       IN  CASE r.tag = "Ok" ->
                    /\ lpc' = "Decoding"
                    /\ lloader' = r.loader
                    /\ UNCHANGED <<lerr, lres, origin, cfg, committed, hpath>>
             [] r.tag = "Err" ->
                    /\ LoadFails(r.err)
                    /\ UNCHANGED lloader
             [] OTHER ->
                    /\ lpc' = "Panicked"
                    /\ lres' = Panic
                    /\ UNCHANGED <<lloader, lerr, origin, cfg, committed, hpath>>
    /\ UNCHANGED <<buildVars, file, use_default_on_error, lpath, loads,
                   held, poisoned, saveVars, ghostVars>>

\* load: match loader.load()
LoadDecode ==
    /\ lpc = "Decoding"
    /\ LET r == loader_load(lloader, file)
       IN  IF r.tag = "Ok"
           THEN /\ lpc' = "Succeeded"
                /\ lres' = Ok(r.val)
                /\ origin' = "loaded"
                /\ cfg' = r.val
                /\ committed' = r.val
                /\ hpath' = Some(lpath)
                /\ UNCHANGED lerr
           ELSE LoadFails(r.err)
    /\ UNCHANGED <<buildVars, file, use_default_on_error, lpath, lloader, loads,
                   held, poisoned, saveVars, ghostVars>>

\* ---------------------------------------------------------- the lock
NoWriter == \A u \in Threads : held[u] # "write"
NoReader == \A u \in Threads : held[u] # "read" /\ ~sguard[u]
\* std RwLock::read/write return Err(PoisonError) on a poisoned lock; the
\* callers of this crate (and its save) unwrap() the result.
Usable == ~(variant = "blocking" /\ poisoned)

\* get().read(): a shared guard, given when no write guard is out.
ReadAcquire(t) ==
    /\ origin # "none" /\ ~LoadRunning
    /\ spc[t] = "idle" /\ held[t] = "none"
    /\ NoWriter
    /\ Usable
    /\ held' = [held EXCEPT ![t] = "read"]
    /\ UNCHANGED <<buildVars, file, loadVars, handleVars, poisoned, committed,
                   saveVars, ghostVars>>

\* the read guard is dropped
ReadRelease(t) ==
    /\ spc[t] = "idle" /\ held[t] = "read"
    /\ held' = [held EXCEPT ![t] = "none"]
    /\ UNCHANGED <<buildVars, file, loadVars, handleVars, poisoned, committed,
                   saveVars, ghostVars>>

\* WriteAcquire as it would be if the lock let a writer in beside readers.
WriteAcquireBesideReaders(t) ==
    /\ origin # "none" /\ ~LoadRunning
    /\ spc[t] = "idle" /\ held[t] = "none"
    /\ NoWriter
    /\ Usable
    /\ held' = [held EXCEPT ![t] = "write"]
    /\ UNCHANGED <<buildVars, file, loadVars, handleVars, poisoned, committed,
                   saveVars, ghostVars>>

\* get().write(): the exclusive guard, given when no guard is out.
WriteAcquire(t) ==
    /\ origin # "none" /\ ~LoadRunning
    /\ spc[t] = "idle" /\ held[t] = "none"
    /\ NoWriter /\ NoReader
    /\ Usable
    /\ held' = [held EXCEPT ![t] = "write"]
    /\ UNCHANGED <<buildVars, file, loadVars, handleVars, poisoned, committed,
                   saveVars, ghostVars>>

\* one assignment through the write guard (config.name = ..; config.age = ..)
WriteField(t, f, v) ==
    /\ spc[t] = "idle" /\ held[t] = "write"
    /\ v \in (IF f = "name" THEN Names ELSE Ages)
    /\ cfg[f] # v
    /\ cfg' = [cfg EXCEPT ![f] = v]
    /\ UNCHANGED <<buildVars, file, loadVars, origin, hpath, lockVars,
                   saveVars, ghostVars>>

\* the write guard is dropped: the value is committed
WriteRelease(t) ==
    /\ spc[t] = "idle" /\ held[t] = "write"
    /\ held' = [held EXCEPT ![t] = "none"]
    /\ committed' = cfg
    /\ UNCHANGED <<buildVars, file, loadVars, handleVars, poisoned,
                   saveVars, ghostVars>>

\* std RwLock: the writer panics holding the guard, which poisons the lock
\* (under tokio the guard is just dropped: WriteRelease).
WriterPanic(t) ==
    /\ variant = "blocking"
    /\ spc[t] = "idle" /\ held[t] = "write"
    /\ held' = [held EXCEPT ![t] = "none"]
    /\ poisoned' = TRUE
    /\ UNCHANGED <<buildVars, file, loadVars, handleVars, committed,
                   saveVars, ghostVars>>

\* ------------------------------------------------------------ Config::save
\* A panic inside save() unwinds the caller: the guard it holds is dropped,
\* and a std write guard dropped in a panic poisons the lock.
SavePanics(t) ==
    /\ spc' = [spc EXCEPT ![t] = "panicked"]
    /\ sres' = [sres EXCEPT ![t] = Panic]
    /\ sguard' = [sguard EXCEPT ![t] = FALSE]
    /\ sloader' = [sloader EXCEPT ![t] = ""]
    /\ snap' = [snap EXCEPT ![t] = Default]
    /\ held' = [held EXCEPT ![t] = "none"]
    /\ poisoned' = (poisoned \/ (variant = "blocking" /\ held[t] = "write"))
    /\ committed' = IF held[t] = "write" /\ variant = "tokio" THEN cfg ELSE committed

\* save() returns r: its guard, its loader and its copy of the value are dropped
SaveReturns(t, r) ==
    /\ spc' = [spc EXCEPT ![t] = "done"]
    /\ sres' = [sres EXCEPT ![t] = r]
    /\ sguard' = [sguard EXCEPT ![t] = FALSE]
    /\ sloader' = [sloader EXCEPT ![t] = ""]
    /\ snap' = [snap EXCEPT ![t] = Default]

\* save's `Some(path) => match manager::for_file::<T>(path)`
SaveResolve(t, path) ==
    LET r == for_file(path, features)
    IN  CASE r.tag = "Ok" ->
                 /\ spc' = [spc EXCEPT ![t] = "resolved"]
                 /\ sloader' = [sloader EXCEPT ![t] = r.loader]
                 /\ UNCHANGED <<snap, sres, sguard, lockVars>>
          [] r.tag = "Err" ->
                 /\ SaveReturns(t, Err(r.err))
                 /\ UNCHANGED lockVars
          [] OTHER ->
                 SavePanics(t)

\* SaveCall as it would be if save unwrapped the path (the panic the
\* documentation of Config::empty speaks of).
SaveCallUnwrapsPath(t) ==
    /\ origin # "none" /\ ~LoadRunning
    /\ spc[t] = "idle"
    /\ held[t] # "read"
    /\ IF ~IsSome(hpath)
       THEN SavePanics(t)
       ELSE SaveResolve(t, Unwrap(hpath))
    /\ UNCHANGED <<buildVars, file, loadVars, handleVars, ghostVars>>

\* save is called: match &self.path, then match manager::for_file(path).
\* The caller holds no guard, or the write guard (a caller holding a read
\* guard behaves to the other threads as a reader and a saver do).
SaveCall(t) ==
    /\ origin # "none" /\ ~LoadRunning
    /\ spc[t] = "idle"
    /\ held[t] # "read"
    /\ IF ~IsSome(hpath)
       THEN /\ SaveReturns(t, Err(ConfigLoadError(None)))
            /\ UNCHANGED lockVars
       ELSE SaveResolve(t, Unwrap(hpath))
    /\ UNCHANGED <<buildVars, file, loadVars, handleVars, ghostVars>>

\* SaveLock as it would be if save took the value out of the handle
\* (std::mem::take through a write guard) instead of reading it.
SaveLockTakesValue(t) ==
    /\ spc[t] = "resolved"
    /\ NoWriter
    /\ IF Usable
       THEN /\ spc' = [spc EXCEPT ![t] = IF variant = "tokio" THEN "locked" ELSE "snapped"]
            /\ sguard' = [sguard EXCEPT ![t] = TRUE]
            /\ snap' = [snap EXCEPT ![t] = cfg]
            /\ cfg' = Default
            /\ UNCHANGED <<sloader, sres, lockVars>>
       ELSE SavePanics(t) /\ UNCHANGED cfg
    /\ UNCHANGED <<buildVars, file, loadVars, origin, hpath, ghostVars>>

\* SaveLock as it would be if the blocking save cloned the value under a
\* temporary guard (`let cfg = self.config.read().unwrap().clone();`) as
\* the tokio save does, and wrote the clone with no guard held.
SaveLockDropsGuard(t) ==
    /\ spc[t] = "resolved"
    /\ NoWriter
    /\ IF Usable
       THEN /\ spc' = [spc EXCEPT ![t] = IF variant = "tokio" THEN "locked" ELSE "snapped"]
            /\ sguard' = [sguard EXCEPT ![t] = (variant = "tokio")]
            /\ snap' = [snap EXCEPT ![t] = cfg]
            /\ UNCHANGED <<sloader, sres, lockVars>>
       ELSE SavePanics(t)
    /\ UNCHANGED <<buildVars, file, loadVars, handleVars, ghostVars>>

\* self.config.read(): the guard once no write guard is out; unwrap() of
\* the std result panics on a poisoned lock.  The guarded value is then
\* read: cloned (tokio), or encoded by loader.save(&guard) (blocking, where
\* the guard lives until loader.save returns).
SaveLock(t) ==
    /\ spc[t] = "resolved"
    /\ NoWriter
    /\ IF Usable
       THEN /\ spc' = [spc EXCEPT ![t] = IF variant = "tokio" THEN "locked" ELSE "snapped"]
            /\ sguard' = [sguard EXCEPT ![t] = TRUE]
            /\ snap' = [snap EXCEPT ![t] = cfg]
            /\ UNCHANGED <<sloader, sres, lockVars>>
       ELSE SavePanics(t)
    /\ UNCHANGED <<buildVars, file, loadVars, handleVars, ghostVars>>

\* std RwLock::read in a thread that holds the write guard itself: it may
\* panic (or block for ever, as the tokio lock does: no step).
SaveLockSelf(t) ==
    /\ variant = "blocking"
    /\ spc[t] = "resolved"
    /\ held[t] = "write"
    /\ SavePanics(t)
    /\ UNCHANGED <<buildVars, file, loadVars, handleVars, ghostVars>>

\* SaveUnlock as it would be if the guard were bound to a variable living
\* to the end of save (`let guard = self.config.read().await;`).
SaveUnlockKeepsGuard(t) ==
    /\ spc[t] = "locked"
    /\ spc' = [spc EXCEPT ![t] = "snapped"]
    /\ UNCHANGED <<buildVars, file, loadVars, handleVars, lockVars, sloader, snap,
                   sres, sguard, ghostVars>>

\* tokio: `let cfg = self.config.read().await.clone();` the guard is a
\* temporary, dropped at the end of the statement.
SaveUnlock(t) ==
    /\ spc[t] = "locked"
    /\ spc' = [spc EXCEPT ![t] = "snapped"]
    /\ sguard' = [sguard EXCEPT ![t] = FALSE]
    /\ UNCHANGED <<buildVars, file, loadVars, handleVars, lockVars, sloader, snap,
                   sres, ghostVars>>

\* loader.save: std::fs::write creates or truncates the file ...
SaveOpen(t) ==
    /\ spc[t] = "snapped"
    /\ spc' = [spc EXCEPT ![t] = "opened"]
    /\ file' = FileOf(<< >>)
    /\ healed' = "no"
    /\ UNCHANGED <<buildVars, loadVars, handleVars, lockVars, sloader, snap, sres,
                   sguard>>

\* ... or fails to (a missing directory, no permission): `?` returns the error
SaveOpenFail(t) ==
    /\ spc[t] = "snapped"
    /\ SaveReturns(t, Err(FromError(<<"D", "e", "n", "i", "e", "d">>)))
    /\ UNCHANGED <<buildVars, file, loadVars, handleVars, lockVars, healed>>

\* ... and writes the text from the start of the file; save() returns Ok
SaveWrite(t) ==
    /\ spc[t] = "opened"
    /\ file' = FileOf(Overlay(file.data, Encode(sloader[t], snap[t])))
    /\ healed' = IF origin = "recovered" THEN "saved" ELSE "no"
    /\ SaveReturns(t, Ok(Default))
    /\ UNCHANGED <<buildVars, loadVars, handleVars, lockVars>>

\* ... or the write fails (a full disk): `?` returns the error
SaveWriteFail(t) ==
    /\ spc[t] = "opened"
    /\ SaveReturns(t, Err(FromError(<<"N", "o", "S", "p", "c">>)))
    /\ UNCHANGED <<buildVars, file, loadVars, handleVars, lockVars, healed>>

\* the caller has the result and goes on
SaveReturn(t) ==
    /\ spc[t] = "done"
    /\ spc' = [spc EXCEPT ![t] = "idle"]
    /\ sres' = [sres EXCEPT ![t] = NoResult]
    /\ UNCHANGED <<buildVars, file, loadVars, handleVars, lockVars, sloader, snap,
                   sguard, ghostVars>>

SaveStep(t) ==
    \/ SaveCall(t)
    \/ SaveLock(t)
    \/ SaveLockSelf(t)
    \/ SaveUnlock(t)
    \/ SaveOpen(t)
    \/ SaveOpenFail(t)
    \/ SaveWrite(t)
    \/ SaveWriteFail(t)
    \/ SaveReturn(t)

\* ------------------------------------------------------- specifications
InitThreads ==
    /\ held = [t \in Threads |-> "none"]
    /\ poisoned = FALSE
    /\ spc = [t \in Threads |-> "idle"]
    /\ sloader = [t \in Threads |-> ""]
    /\ snap = [t \in Threads |-> Default]
    /\ sres = [t \in Threads |-> NoResult]
    /\ sguard = [t \in Threads |-> FALSE]
    /\ healed = "no"

\* The handles threads share in Spec: Config::empty(), Config::new(value,
\* path), and what load returned.
SharedPaths == {PJson, PIni, PBad}

\* One handle, shared by the threads: readers, writers and save() calls.
Init ==
    /\ variant \in Variants
    /\ features = AllFeatures
    /\ use_default_on_error = FALSE
    /\ lpc = "Idle" /\ lpath = << >> /\ lloader = ""
    /\ lerr = NoError /\ lres = NoResult /\ loads = 0
    /\ \/ /\ origin = "empty"
          /\ cfg = empty.cfg /\ hpath = empty.path
          /\ file = NoFile
       \/ \E p \in SharedPaths :
             /\ origin = "new"
             /\ cfg = new(Default, p).cfg /\ hpath = new(Default, p).path
             /\ file = NoFile
    /\ committed = cfg
    /\ InitThreads

Next ==
    \/ \E t \in Threads : ReadAcquire(t)
    \/ \E t \in Threads : ReadRelease(t)
    \/ \E t \in Threads : WriteAcquire(t)
    \/ \E t \in Threads : \E f \in {"name", "age"} : \E v \in Names \cup Ages : WriteField(t, f, v)
    \/ \E t \in Threads : WriteRelease(t)
    \/ \E t \in Threads : WriterPanic(t)
    \/ \E t \in Threads : SaveStep(t)

Spec == Init /\ [][Next]_vars

\* A single thread: builders load a path, the handle is saved.
InitLoad ==
    /\ variant \in Variants
    /\ features \in FeatureSets
    /\ file \in InitFiles
    /\ use_default_on_error = FALSE
    /\ lpc = "Idle" /\ lpath = << >> /\ lloader = ""
    /\ lerr = NoError /\ lres = NoResult /\ loads = 0
    /\ origin = "none" /\ cfg = Default /\ hpath = None
    /\ committed = cfg
    /\ InitThreads

NextLoad ==
    \/ Configure
    \/ UseDefaultOnError
    \/ \E p \in Paths : LoadCall(p)
    \/ LoadResolve
    \/ LoadDecode
    \/ SaveCall(1)
    \/ SaveLock(1)
    \/ SaveUnlock(1)
    \/ SaveOpen(1)
    \/ SaveOpenFail(1)
    \/ SaveWrite(1)
    \/ SaveWriteFail(1)
    \/ SaveReturn(1)

SpecLoad == InitLoad /\ [][NextLoad]_vars

\* ================================================================ claims
\* The states in which a load call is over.
Finished == Terminal \cup {"Panicked"}

C6_NoGuardAcrossWrite ==
    variant = "tokio" =>
        \A t \in Threads : spc[t] \in {"snapped", "opened"} => ~sguard[t]

\* a writer holds the write guard while a save has the file open
C6_Witness ==
    /\ variant = "tokio"
    /\ \E t, u \in Threads : spc[t] = "opened" /\ held[u] = "write"

\* C7: at most one write guard is out, and none beside a read guard
\* (a caller's or save's); whoever holds a read guard sees the value as the
\* last dropped write guard left it (or the initial value), and so does
\* the copy save() took under its guard.
C7_ReadersSeeCommitted ==
    /\ Cardinality({t \in Threads : held[t] = "write"}) <= 1
    /\ (\E t \in Threads : held[t] = "write") => NoReader
    /\ (\E t \in Threads : held[t] = "read" \/ sguard[t]) => cfg = committed
    /\ \A t \in Threads : sguard[t] => snap[t] = committed

\* a reader and a save hold read guards on a value a writer committed
C7_Witness ==
    /\ cfg # Default
    /\ \E t, u \in Threads : held[t] = "read" /\ sguard[u] /\ snap[u] = cfg

\* C8: when the write of a save() completes with no other save between
\* its File::create and its write (so this write is the last), and every
\* save that has returned returned Ok, the file holds exactly the encoding
\* of the value that save read under the lock.
C8_LastWriteWins ==
    [][\A t \in Threads :
          ( /\ spc[t] = "opened" /\ spc'[t] = "done" /\ sres'[t].tag = "Ok"
            /\ \A u \in Threads \ {t} :
                  /\ spc[u] # "opened"
                  /\ spc[u] = "done" => sres[u].tag = "Ok" )
          => file' = FileOf(Encode(sloader[t], snap[t]))]_vars

\* C10: no step of save() changes the value or the path or takes a write
\* guard; the value changes only in a step of a thread that holds the write
\* guard it got from get() and is not inside save().
C10_SaveFrame ==
    [][/\ hpath' = hpath
       /\ spc' # spc => (cfg' = cfg /\ \A t \in Threads : held'[t] = "write" => held[t] = "write")
       /\ cfg' # cfg => \E t \in Threads :
                            held[t] = "write" /\ held'[t] = "write" /\ spc[t] = "idle"]_vars

\* a save() has written a value that a writer had set, and one has failed
C10_Witness ==
    /\ cfg # Default
    /\ file = FileOf(Encode("json", cfg))
    /\ \E t, u \in Threads : /\ spc[t] = "done" /\ sres[t].tag = "Ok"
                            /\ spc[u] = "done" /\ sres[u].tag = "Err"

\* ------------------------------------------------ claims about load
\* C2: a load() of a builder with use_default_on_error set returns Ok
\* whatever fails, and the handle of a recovered failure holds T::default()
\* and the path given to load.
C2_DefaultOnError ==
    (use_default_on_error /\ lpc \in Finished) =>
        /\ lpc \in {"Succeeded", "Recovered"}
        /\ lres.tag = "Ok"
        /\ lpc = "Recovered" =>
              (lres.val = Default /\ cfg = Default /\ hpath = Some(lpath))

\* C3: a load() of a builder without use_default_on_error that fails
\* returns the very error the resolver or the loader produced:
\* UnknownFileExtension when no codec matches the extension,
\* SerializationError when reading or decoding fails; it returns no handle.
C3_ErrorUnchanged ==
    (~use_default_on_error /\ lpc \in Finished) =>
        LET r == for_file(lpath, features)
        IN  /\ lpc # "Recovered"
            /\ r.tag # "Ok" =>
                  (lpc = "Failed" /\ lres.tag = "Err"
                      /\ lres.err.kind = "UnknownFileExtension")
            /\ lpc = "Failed" =>
                  (lres = Err(lerr)
                      /\ (r.tag = "Ok" => lerr.kind = "SerializationError"))

\* The extensions with a codec, by the features compiled in.
CompiledIn(feats) ==
    {c \in {<<<<"j", "s", "o", "n">>, "json">>, <<<<"t", "o", "m", "l">>, "toml">>,
            <<<<"y", "a", "m", "l">>, "yaml">>, <<<<"y", "m", "l">>, "yaml">>} :
        c[2] \in feats}

\* C4: once load has resolved its path, it has a loader exactly when the
\* extension is, letter for letter, one with a compiled-in codec (and then
\* that codec's); otherwise for_file gave UnknownFileExtension carrying the
\* extension text, or nothing when the path has no extension.
C4_ResolverByExtension ==
    lpc \in {"Decoding"} \cup Finished =>
        LET ext == Extension(lpath)
            hit == {c \in CompiledIn(features) : ext = Some(c[1])}
        IN  IF hit # {}
            THEN \E c \in hit : lloader = c[2]
            ELSE /\ lloader = ""
                 /\ lpc \in {"Recovered", "Failed"}
                 /\ lerr = UnknownFileExtension(ext)

\* C5 as claimed: the save() of any recovered handle returns Ok and leaves
\* the encoding of the default value in the file.
C5_SaveAlwaysSucceeds ==
    (origin = "recovered" /\ spc[1] = "done") =>
        /\ sres[1].tag = "Ok"
        /\ \E f \in AllFeatures : file = FileOf(Encode(f, Default))

\* C5 as amended: a recovered handle keeps the path given to load.  If a
\* codec matches its extension, save() returns Ok unless File::create or
\* the write fails (a SerializationError), and after Ok the file holds the
\* encoding of the default value; a load of the path without recovery then
\* succeeds with the default value.  If no codec matches, save() returns
\* the resolver's error.
C5_SaveAfterRecovery ==
    /\ origin = "recovered" =>
          /\ hpath = Some(lpath)
          /\ cfg = Default
          /\ spc[1] = "done" =>
                LET r == for_file(lpath, features)
                IN  IF r.tag = "Ok"
                    THEN /\ sres[1].tag = "Err" => sres[1].err.kind = "SerializationError"
                         /\ sres[1].tag = "Ok" => file = FileOf(Encode(r.loader, Default))
                    ELSE sres[1] = Err(r.err)
    /\ (healed = "reload" /\ ~use_default_on_error /\ lpc \in Finished) =>
          (lpc = "Succeeded" /\ cfg = Default /\ lres = Ok(Default))

\* a recovered handle was saved, and a load without recovery read it back
C5_Witness ==
    /\ healed = "reload"
    /\ ~use_default_on_error
    /\ lpc = "Succeeded"
    /\ loads = 2

\* C9: load moves Resolving -> Decoding only when a codec matched, ends in
\* Succeeded only on a clean decode, in Recovered only on a failure with
\* the flag set, in Failed only on a failure without it, goes nowhere else
\* and leaves no terminal state (a step to Builder is another load).
C9_LoadStateMachine ==
    [][lpc' # lpc =>
          \/ lpc' = "Builder"
          \/ lpc = "Builder" /\ lpc' = "Resolving"
          \/ /\ lpc = "Resolving"
             /\ \/ lpc' = "Decoding" /\ for_file(lpath, features).tag = "Ok"
                \/ lpc' = "Recovered" /\ use_default_on_error
                \/ lpc' = "Failed" /\ ~use_default_on_error
          \/ /\ lpc = "Decoding"
             /\ \/ lpc' = "Succeeded" /\ loader_load(lloader, file).tag = "Ok"
                \/ /\ loader_load(lloader, file).tag = "Err"
                   /\ \/ lpc' = "Recovered" /\ use_default_on_error
                      \/ lpc' = "Failed" /\ ~use_default_on_error]_vars

\* ------------------------------------------- claims about save's outcome
\* C11: a save() that has resolved its codec and whose caller holds no
\* write guard of its own never panics when it takes the read lock,
\* whatever happened to the lock before (a writer that panicked under its
\* write guard included): it goes on to return Ok or an Err value.
C11_SaveNeverPanics ==
    [][\A t \in Threads :
          (spc[t] = "resolved" /\ held[t] # "write") => spc'[t] # "panicked"]_vars

\* C12: for_file is total over the paths with an extension, whether or not
\* the extension is valid UTF-8: a load of such a path never panics; when no
\* codec matches it ends with UnknownFileExtension, returned as Err or
\* recovered to the default when the flag is set.
C12_ResolverTotal ==
    (lpc \in {"Decoding"} \cup Finished /\ IsSome(Extension(lpath))) =>
        /\ lpc # "Panicked"
        /\ lres # Panic
        /\ lloader = "" =>
              /\ lerr.kind = "UnknownFileExtension"
              /\ lpc = IF use_default_on_error THEN "Recovered" ELSE "Failed"
              /\ lres = IF use_default_on_error THEN Ok(Default) ELSE Err(lerr)

\* C13: in the blocking variant save() holds its read guard from the read
\* of the value until the file write has returned: meanwhile no write
\* guard is out or taken and the value stays as save read it, so when a
\* write completes with Ok the file holds the encoding of the value then in
\* memory.
C13_BlockingSaveHoldsGuard ==
    [][variant = "blocking" =>
          \A t \in Threads :
             /\ spc[t] \in {"snapped", "opened"} =>
                   /\ sguard[t]
                   /\ snap[t] = cfg
                   /\ cfg' = cfg
                   /\ \A u \in Threads : held[u] # "write" /\ held'[u] # "write"
             /\ (spc[t] = "opened" /\ spc'[t] = "done" /\ sres'[t].tag = "Ok") =>
                   file' = FileOf(Encode(sloader[t], cfg'))]_vars

\* blocking: a save has written a value a writer had set while another
\* save, between its File::create and its write, still holds its guard
C13_Witness ==
    /\ variant = "blocking"
    /\ cfg # Default
    /\ file = FileOf(Encode("json", cfg))
    /\ \E t, u \in Threads : /\ spc[t] = "done" /\ sres[t].tag = "Ok"
                            /\ spc[u] = "opened" /\ sguard[u]

====
